---- MODULE Spec2Model ----
(***************************************************************************)
(* Model of the TASCAR speaker calibration session                         *)
(* (libtascar/src/calibsession.cc, class calibsession_t).                  *)
(*                                                                         *)
(* Numbers.  Linear quantities (speaker gains, caliblevel in Pa, diffuse   *)
(* gain) are exact rationals <<n, d>> in lowest terms.  Levels and other   *)
(* dB quantities are integers counted in units of 20*log10(2) dB (about    *)
(* 6.02 dB), so that the code's pow(10.0, 0.05 * x) is the exact rational  *)
(* 2^x (Pow10_05) and 20*log10(g) is the exponent of a power of two        *)
(* (Log10_20).  Floating point rounding is not modelled.                   *)
(*                                                                         *)
(* Control flow.  The calibration methods run on the control context, one  *)
(* at a time.  get_levels, set_active and set_active_diff are unfolded     *)
(* into their statements (prog), executed one per step, so that every      *)
(* intermediate mute state of a phase transition is a state of the model.  *)
(*                                                                         *)
(* Session runtime.  calibsession_t derives from session_t, of which only   *)
(* the declarations (session.h) are at hand.  The variable session holds   *)
(* its scenes, modules, transport, lock and the positions of the audio     *)
(* callback and of the control path inside it; start, stop, unload_modules *)
(* and process are modelled as the specification of the runtime describes  *)
(* them.  Strings (calibfor) are sequences of characters.                  *)
(*                                                                         *)
(* Recording.  A capture delivers one energy on each channel of the         *)
(* recording buffer (recbuf.ms); the averages the code takes of them are   *)
(* kept in recbuf.  The level a capture yields is drawn on its own.  A      *)
(* capture may also raise an error, which leaves get_levels at once.       *)
(*                                                                         *)
(* Left out: the diagnostic level ranges (levelsfrg, sublevelsfrg), the    *)
(* console output, the samples of the recording and the checksum and date  *)
(* written by saveas (doc.saved stands for them).                          *)
(***************************************************************************)
EXTENDS Integers, Sequences, FiniteSets, TLC

\* ------------------------------------------------------------------ bounds
MaxSpk == 2      \* broadband speakers of the layout: 1..MaxSpk
MaxSub == 1      \* subwoofers of the layout: 0..MaxSub
MaxLevel == 1    \* measured levels are drawn from 0..MaxLevel
MaxFileGain == 1 \* gains stored in the layout file: -MaxFileGain..0 (dB units)
MaxOps == 3      \* calls of calibration methods in one behaviour of Spec
MaxDelta == 1    \* inc_caliblevel / inc_diffusegain argument: -MaxDelta..MaxDelta
MaxResp == 0     \* room conditions a response capture can meet: 0..MaxResp

\* ------------------------------------------------------- exact rationals
RECURSIVE GCD(_, _)
GCD(a, b) == IF b = 0 THEN a ELSE GCD(b, a % b)

Abs(x) == IF x < 0 THEN -x ELSE x

\* the rational n/d (d /= 0) in lowest terms with positive denominator
Rat(n, d) ==
  LET g == GCD(Abs(n), Abs(d))
      s == IF d < 0 THEN -1 ELSE 1
  IN  <<(s * n) \div g, (s * d) \div g>>

RMul(a, b) == Rat(a[1] * b[1], a[2] * b[2])
RDiv(a, b) == Rat(a[1] * b[2], a[2] * b[1])
RAdd(a, b) == Rat(a[1] * b[2] + b[1] * a[2], a[2] * b[2])
RLess(a, b) == a[1] * b[2] < b[1] * a[2]
RMax(a, b) == IF RLess(a, b) THEN b ELSE a
ROne == <<1, 1>>
RZero == <<0, 1>>

RECURSIVE IPow2(_)
IPow2(k) == IF k = 0 THEN 1 ELSE 2 * IPow2(k - 1)

RECURSIVE ILog2(_)
\* exponent of the power of two n >= 1
ILog2(n) == IF n <= 1 THEN 0 ELSE 1 + ILog2(n \div 2)

\* pow(10.0, 0.05 * x), x in units of 20*log10(2) dB
Pow10_05(x) == IF x >= 0 THEN <<IPow2(x), 1>> ELSE <<1, IPow2(-x)>>

\* 20 * log10(g) in units of 20*log10(2) dB, for g a power of two
Log10_20(g) == ILog2(g[1]) - ILog2(g[2])

\* ------------------------------------------------------------------ state
Sources == {"bb", "sub"}          \* source_objects[0], source_objects[1]
Receivers == {"nsp", "spec"}      \* rec_nsp / spk_nsp, rec_spec / spk_spec
Mutable == {"bb", "sub", "diff", "nsp", "spec"}
Files == {"orig", "other"}        \* spkname and one other destination

VARIABLES
  mute,            \* mute flag of the two sources, the diffuse field, the two receivers
  loc,             \* dlocation of each source: "origin", "front" = (1,0,0), or <<phase, k>>
  spkpos,          \* spkpos[r].bb / .subs: the speakers of spk_nsp->spkpos, spk_spec->spkpos
  spk_file,        \* gains of the layout loaded at construction (spk_file)
  levels, sublevels,
  lmin, lmax, lmean,
  gainmodified, levelsrecorded, calibrated, calibrated_diff,
  startlevel, startdiffgain, delta, delta_diff,
  caliblevel, diffusegain,   \* per receiver, linear
  par,             \* par_speaker / par_sub: max_eqstages and the band count they yield
  fcomp, vF, vGains, numflt, \* fcomp.bb = fcomp_bb, vF.sub = vFsub, vGains.sub = vGainsSub
  recbuf,          \* the recording: channel energies, and the averages taken of them
  disk,            \* the layout documents on disk
  prog,            \* remaining statements of the running method
  cur,             \* the method running or last returned, its argument and outcome
  session,         \* the session_t base object: scenes, modules, transport, lock
  hist             \* history: values at the last call, number of calls

vars == <<mute, loc, spkpos, spk_file, levels, sublevels, lmin, lmax, lmean,
          gainmodified, levelsrecorded, calibrated, calibrated_diff,
          startlevel, startdiffgain, delta, delta_diff, caliblevel, diffusegain,
          par, fcomp, vF, vGains, numflt, recbuf, disk, prog, cur, session, hist>>

mutevars == <<mute, loc>>
levelvars == <<levels, sublevels, lmin, lmax, lmean>>
flagvars == <<gainmodified, levelsrecorded, calibrated, calibrated_diff>>
calibvars == <<startlevel, startdiffgain, delta, delta_diff, caliblevel, diffusegain>>
eqvars == <<fcomp, vF, vGains, numflt>>

NSpk == Len(spkpos["nsp"].bb)
NSub == Len(spkpos["nsp"].subs)

\* a speaker as loaded from a layout element with gain attribute gdb (dB units);
\* the constructor then sets eqstages = 0 on every speaker of both arrays
Speaker(gdb) ==
  [gain |-> Pow10_05(gdb), eqstages |-> 0, eqfreq |-> 0, eqgain |-> <<>>, eq |-> <<>>]

\* a layout document: root element name, root attributes, one gain per child
LayoutDoc(g, sg, cl, dg) ==
  [root |-> "layout", caliblevel |-> cl, diffusegain |-> dg,
   gain |-> g, subgain |-> sg,
   eqstages |-> [k \in DOMAIN g |-> 0], subeqstages |-> [k \in DOMAIN sg |-> 0],
   calibfor |-> <<>>, saved |-> FALSE]

NoDoc == [root |-> "none"]

\* double calibsession_t::get_caliblevel() const
Get_caliblevel(cl) == Log10_20(RMul(cl["spec"], <<50000, 1>>))

\* double calibsession_t::get_diffusegain() const
Get_diffusegain(dg) == Log10_20(dg["spec"])

\* the four flags gainmodified, levelsrecorded, calibrated, calibrated_diff
FlagsOf(gm, lr, c, cd) ==
  [gainmodified |-> gm, levelsrecorded |-> lr, calibrated |-> c,
   calibrated_diff |-> cd]

\* strings are sequences of characters; calibfor = "type:nsp"
TypeNsp == <<"t", "y", "p", "e", ":", "n", "s", "p">>

\* the modules of the calibration session, in registration order: the routes
\* "pink" and "sub"
ModuleList == <<"pink", "sub">>

\* position of a context that is not inside an operation of the session; the
\* others are <<"prepare", m>>, <<"update", m>>, ... with m a module index
NoStep == <<"idle", 0>>

\* the session_t base object before add_scene / add_module: no scene, no
\* module, not started, lock free.  shared is a configuration value the control
\* path of the session changes under the lock, cache the value the audio
\* callback works with; upd, stale and missed are history
EmptySession ==
  [scenes |-> 0, modules |-> <<>>, calibfor |-> <<>>,
   started |-> FALSE, active |-> FALSE, mtx |-> "free",
   mod |-> [m \in {} |-> "loaded"],
   rt |-> NoStep, ctl |-> NoStep, shared |-> 0, cache |-> 0,
   upd |-> {}, stale |-> FALSE, missed |-> FALSE]

\* the session after add_scene(e_scene.e); add_module(e_route_pink.e);
\* add_module(e_route_sub.e), with calibfor member cf
Constructed(cf) ==
  [EmptySession EXCEPT !.scenes = 1, !.modules = ModuleList, !.calibfor = cf,
                       !.mod = [m \in 1..Len(ModuleList) |-> "loaded"]]

\* size_t std::string::find for a delimiter of one character, searching s from
\* index i (counted from 1) on: the index found, 0 for npos
RECURSIVE Find(_, _, _)
Find(s, d, i) ==
  IF i > Len(s) THEN 0 ELSE IF s[i] = d THEN i ELSE Find(s, d, i + 1)

RECURSIVE string_tokenNoRemainder(_, _)
\* string_token without the final rv.push_back(s)
string_tokenNoRemainder(s, d) ==
  LET pos == Find(s, d, 1)
  IN  IF pos /= 0
        THEN <<SubSeq(s, 1, pos - 1)>>
             \o string_tokenNoRemainder(SubSeq(s, pos + 1, Len(s)), d)
        ELSE <<>>

RECURSIVE string_token(_, _)
\* std::vector<std::string> string_token(std::string s, const std::string& delimiter)
string_token(s, d) ==
  LET pos == Find(s, d, 1)
  IN  IF pos /= 0
        THEN <<SubSeq(s, 1, pos - 1)>> \o string_token(SubSeq(s, pos + 1, Len(s)), d)
        ELSE <<s>>

\* calibfor(get_calibfor(fname)); if(calibfor.empty()) calibfor = "type:nsp"
CalibforOf(doc) == IF doc.calibfor = <<>> THEN TypeNsp ELSE doc.calibfor

\* for(auto typeattr : string_token(calibfor, ",")): the constructor throws
\* unless string_token(typeattr, ":").size() == 2
CalibforValid(cf) ==
  LET receivertypeattr == string_token(cf, ",")
  IN  \A i \in 1..Len(receivertypeattr) :
        Len(string_token(receivertypeattr[i], ":")) = 2

\* the members of calibsession_t as the constructor leaves them, for a layout
\* with broadband gains g, subwoofer gains sg (dB units), caliblevel cl and
\* diffusegain dg (dB units), and calibration parameters p; budget bounds the
\* number of calls the control context makes afterwards
Members(g, sg, cl, dg, p, budget) ==
  /\ mute = [bb |-> TRUE, sub |-> TRUE, diff |-> TRUE, nsp |-> FALSE, spec |-> TRUE]
  /\ loc = [bb |-> "front", sub |-> "origin"]
  /\ spkpos = [r \in Receivers |->
                 [bb |-> [k \in DOMAIN g |-> Speaker(g[k])],
                  subs |-> [k \in DOMAIN sg |-> Speaker(sg[k])]]]
  /\ spk_file = [bb |-> [k \in DOMAIN g |-> Pow10_05(g[k])],
                 subs |-> [k \in DOMAIN sg |-> Pow10_05(sg[k])]]
  /\ levels = [k \in DOMAIN g |-> 0]
  /\ sublevels = [k \in DOMAIN sg |-> 0]
  /\ lmin = 0 /\ lmax = 0 /\ lmean = RZero
  /\ gainmodified = FALSE /\ levelsrecorded = FALSE
  /\ calibrated = FALSE /\ calibrated_diff = FALSE
  /\ caliblevel = [r \in Receivers |-> RMul(<<1, 50000>>, Pow10_05(cl))]
  /\ diffusegain = [r \in Receivers |-> Pow10_05(dg)]
  /\ startlevel = Get_caliblevel(caliblevel)
  /\ startdiffgain = Get_diffusegain(diffusegain)
  /\ delta = 0 /\ delta_diff = 0
  /\ par = p
  /\ fcomp = [bb |-> 0, sub |-> 0]
  /\ vF = [bb |-> 0, sub |-> 0]
  /\ vGains = [bb |-> <<>>, sub |-> <<>>]
  /\ numflt = 0
  /\ prog = <<>>
  /\ hist = [calls |-> 0, budget |-> budget, gain0 |-> spkpos, reset |-> FALSE,
             level0 |-> cl, dsum |-> 0, runs |-> <<>>, lr0 |-> FALSE,
             failed |-> FALSE,
             pre |-> [flags |-> FlagsOf(FALSE, FALSE, FALSE, FALSE), disk |-> disk]]

\* bbrecbuf / subrecbuf: one channel for each of the refport_ reference
\* microphones and a last one for the rendered reference signal.  ms[ch] is
\* the energy a capture delivers on channel ch, lev_sqr and vLmean are the
\* averages get_levels_ and get_fresp_ have taken of the last capture (zero
\* before any)
Buffers(ms) == [ms |-> ms, lev_sqr |-> RZero, vLmean |-> RZero]

\* the state after calibsession_t::calibsession_t on a layout file without
\* calibfor attribute, with the microphones delivering the energies ms
ConstructOn(g, sg, cl, dg, p, budget, ms) ==
  /\ disk = [orig |-> LayoutDoc(g, sg, cl, dg), other |-> NoDoc]
  /\ cur = [op |-> "construct", arg |-> FALSE, res |-> "ok"]
  /\ session = Constructed(CalibforOf(disk["orig"]))
  /\ recbuf = Buffers(ms)
  /\ Members(g, sg, cl, dg, p, budget)

\* the same with one reference microphone
Construct(g, sg, cl, dg, p, budget) ==
  ConstructOn(g, sg, cl, dg, p, budget, <<1, 1>>)

\* ------------------------------------------------- the methods' statements
\* one statement: kind i, target t (a source, receiver, phase or flag), speaker
\* index k, value v
Stmt(i, t, k, v) == [i |-> i, t |-> t, k |-> k, v |-> v]

SetMute(t, v) == Stmt("mute", t, 0, v)

RECURSIVE SetActiveCode(_), SetActiveDiffCode(_)

\* set_active that leaves the receivers as they are when b is true
SetActiveCodeKeepsReceivers(b) ==
  <<SetMute("sub", TRUE)>>
  \o (IF ~b THEN <<SetMute("nsp", FALSE), SetMute("spec", TRUE)>> ELSE <<>>)
  \o (IF b THEN SetActiveDiffCode(FALSE) ELSE <<>>)
  \o <<Stmt("loc", "bb", 0, TRUE), SetMute("bb", ~b)>>
  \o (IF b THEN <<Stmt("flag", "calibrated", 0, TRUE)>> ELSE <<>>)

\* void calibsession_t::set_active(bool b)
SetActiveCode(b) ==
  <<SetMute("sub", TRUE)>>
  \o (IF ~b THEN <<SetMute("nsp", FALSE), SetMute("spec", TRUE)>> ELSE <<>>)
  \o (IF b THEN SetActiveDiffCode(FALSE) ELSE <<>>)
  \o <<Stmt("loc", "bb", 0, TRUE), SetMute("bb", ~b)>>
  \o (IF b THEN <<Stmt("flag", "calibrated", 0, TRUE),
                  SetMute("nsp", TRUE), SetMute("spec", FALSE)>>
           ELSE <<>>)

\* set_active_diff that does not call set_active(false) when b is true
SetActiveDiffCodeKeepsSource(b) ==
  <<SetMute("sub", TRUE)>>
  \o (IF ~b THEN <<SetMute("nsp", FALSE), SetMute("spec", TRUE)>> ELSE <<>>)
  \o <<SetMute("diff", ~b)>>
  \o (IF b THEN <<Stmt("flag", "calibrated_diff", 0, TRUE),
                  SetMute("nsp", TRUE), SetMute("spec", FALSE)>>
           ELSE <<>>)

\* set_active_diff that unmutes the diffuse field whatever b is
SetActiveDiffCodeUnmutes(b) ==
  <<SetMute("sub", TRUE)>>
  \o (IF ~b THEN <<SetMute("nsp", FALSE), SetMute("spec", TRUE)>> ELSE <<>>)
  \o (IF b THEN SetActiveCode(FALSE) ELSE <<>>)
  \o <<SetMute("diff", FALSE)>>
  \o (IF b THEN <<Stmt("flag", "calibrated_diff", 0, TRUE),
                  SetMute("nsp", TRUE), SetMute("spec", FALSE)>>
           ELSE <<>>)

\* void calibsession_t::set_active_diff(bool b)
SetActiveDiffCode(b) ==
  <<SetMute("sub", TRUE)>>
  \o (IF ~b THEN <<SetMute("nsp", FALSE), SetMute("spec", TRUE)>> ELSE <<>>)
  \o (IF b THEN SetActiveCode(FALSE) ELSE <<>>)
  \o <<SetMute("diff", ~b)>>
  \o (IF b THEN <<Stmt("flag", "calibrated_diff", 0, TRUE),
                  SetMute("nsp", TRUE), SetMute("spec", FALSE)>>
           ELSE <<>>)

RECURSIVE SpkLoop(_, _, _, _)
\* for(auto& spk : spks) { src.dlocation = spk.unitvector; ... jackrec.rec(...); ... }
\* for the speakers k..n of phase ph; kind is "fresp" or "lev"
SpkLoop(kind, ph, k, n) ==
  IF k > n THEN <<>>
  ELSE <<Stmt(kind \o "_move", ph, k, TRUE), Stmt(kind \o "_rec", ph, k, TRUE)>>
       \o SpkLoop(kind, ph, k + 1, n)

\* get_fresp_ that measures whatever max_eqstages is
FrespCodeAlwaysMeasures(ph, n, maxeq) ==
  <<Stmt("fresp_begin", ph, 0, TRUE)>>
  \o SpkLoop("fresp", ph, 1, n)
  \o <<Stmt("fresp_ret", ph, 0, TRUE)>>

\* uint32_t get_fresp_(...) as called for phase ph on n speakers, and the
\* assignment of its result to fcomp_bb / fcomp_sub
FrespCode(ph, n, maxeq) ==
  IF maxeq = 0 THEN <<Stmt("fresp_ret", ph, 0, FALSE)>>
  ELSE <<Stmt("fresp_begin", ph, 0, TRUE)>>
       \o SpkLoop("fresp", ph, 1, n)
       \o <<Stmt("fresp_ret", ph, 0, TRUE)>>

\* void get_levels_(...) as called for phase ph on n speakers
LevelsCode(ph, n) ==
  <<Stmt("lev_begin", ph, 0, TRUE)>> \o SpkLoop("lev", ph, 1, n)

\* get_levels that does not route the receivers
GetLevelsCodeKeepsReceivers(n, s, p) ==
  <<SetMute("sub", TRUE), SetMute("bb", FALSE)>>
  \o FrespCode("bb", n, p["bb"].max_eqstages)
  \o LevelsCode("bb", n)
  \o (IF s /= 0
        THEN <<SetMute("bb", TRUE), SetMute("sub", FALSE)>>
             \o FrespCode("sub", s, p["sub"].max_eqstages)
             \o LevelsCode("sub", s)
        ELSE <<>>)
  \o <<SetMute("bb", TRUE), Stmt("loc", "bb", 0, TRUE),
       SetMute("sub", TRUE), Stmt("loc", "sub", 0, TRUE)>>
  \o <<Stmt("normalize", "bb", 0, TRUE)>>

\* get_levels that converts the levels into gains before the subwoofer phase
GetLevelsCodeNormalizesEarly(n, s, p) ==
  <<SetMute("sub", TRUE), SetMute("bb", FALSE),
    SetMute("spec", TRUE), SetMute("nsp", FALSE)>>
  \o FrespCode("bb", n, p["bb"].max_eqstages)
  \o LevelsCode("bb", n)
  \o <<Stmt("normalize", "bb", 0, TRUE)>>
  \o (IF s /= 0
        THEN <<SetMute("bb", TRUE), SetMute("sub", FALSE)>>
             \o FrespCode("sub", s, p["sub"].max_eqstages)
             \o LevelsCode("sub", s)
        ELSE <<>>)
  \o <<SetMute("bb", TRUE), Stmt("loc", "bb", 0, TRUE),
       SetMute("sub", TRUE), Stmt("loc", "sub", 0, TRUE)>>

\* get_levels whose final loop mutes and moves the broadband source only
GetLevelsCodeLeavesSub(n, s, p) ==
  <<SetMute("sub", TRUE), SetMute("bb", FALSE),
    SetMute("spec", TRUE), SetMute("nsp", FALSE)>>
  \o FrespCode("bb", n, p["bb"].max_eqstages)
  \o LevelsCode("bb", n)
  \o (IF s /= 0
        THEN <<SetMute("bb", TRUE), SetMute("sub", FALSE)>>
             \o FrespCode("sub", s, p["sub"].max_eqstages)
             \o LevelsCode("sub", s)
        ELSE <<>>)
  \o <<SetMute("bb", TRUE), Stmt("loc", "bb", 0, TRUE)>>
  \o <<Stmt("normalize", "bb", 0, TRUE)>>

\* void calibsession_t::get_levels() for n broadband speakers and s subwoofers
GetLevelsCode(n, s, p) ==
  <<SetMute("sub", TRUE), SetMute("bb", FALSE),
    SetMute("spec", TRUE), SetMute("nsp", FALSE)>>
  \o FrespCode("bb", n, p["bb"].max_eqstages)
  \o LevelsCode("bb", n)
  \o (IF s /= 0
        THEN <<SetMute("bb", TRUE), SetMute("sub", FALSE)>>
             \o FrespCode("sub", s, p["sub"].max_eqstages)
             \o LevelsCode("sub", s)
        ELSE <<>>)
  \o <<SetMute("bb", TRUE), Stmt("loc", "bb", 0, TRUE),
       SetMute("sub", TRUE), Stmt("loc", "sub", 0, TRUE)>>
  \o <<Stmt("normalize", "bb", 0, TRUE)>>

\* ------------------------------------------------------------ pure helpers
RECURSIVE MinOf(_, _), MaxOf(_, _), SumOf(_, _), RMaxOf(_, _, _)
\* min / max / sum of the integer sequence q from index k on
MinOf(q, k) == IF k = Len(q) THEN q[k]
               ELSE LET m == MinOf(q, k + 1) IN IF q[k] < m THEN q[k] ELSE m
MaxOf(q, k) == IF k = Len(q) THEN q[k]
               ELSE LET m == MaxOf(q, k + 1) IN IF q[k] > m THEN q[k] ELSE m
SumOf(q, k) == IF k > Len(q) THEN 0 ELSE q[k] + SumOf(q, k + 1)

\* double lmax(0); for(k...) lmax = std::max(lmax, q[k]) over rationals
RMaxOf(q, k, acc) == IF k > Len(q) THEN acc ELSE RMaxOf(q, k + 1, RMax(acc, q[k]))

Min2(a, b) == IF a < b THEN a ELSE b

\* for(ch = 0u; ch < ports.size() - 1u; ++ch) lev_sqr += levelmeter.ms();
\* lev_sqr /= (float)recbuf.size(), likewise vLmean[k] in get_fresp_: the sum
\* runs over all channels but the last, the divisor is the number of all
\* channels
ChannelMean(ms) == Rat(SumOf(SubSeq(ms, 1, Len(ms) - 1), 1), Len(ms))

\* ((uint32_t)vF.size() - 1u) / 3u for a vector of B bands: the subtraction is
\* unsigned, so B = 0 wraps to 4294967295
U32MaxDiv3 == 1431655765
BandsToStages(B) == IF B >= 1 THEN (B - 1) \div 3 ELSE U32MaxDiv3

\* numflt = std::min(((uint32_t)vF.size() - 1u) / 3u, calibpar.max_eqstages)
Numflt(B, maxeq) == Min2(BandsToStages(B), maxeq)

\* the equalizer that optim_response(stages, vF, gains, srate) fits: determined
\* by its arguments
OptimResponse(stages, B, resp) == <<stages, B, resp>>

\* the level difference taken with the wrong sign
ScaledGainInverted(g, lm, l) == RMul(g, Pow10_05(l - lm))

\* recspk->spkpos[k].gain *= pow(10.0, 0.05 * (lmin - levels[k]))
ScaledGain(g, lm, l) == RMul(g, Pow10_05(lm - l))

\* the gain update without the division by the maximum gain
NormalizeGainsNoDivide(arr, lv, slv, lm) ==
  [bb |-> [k \in DOMAIN arr.bb |->
             [arr.bb[k] EXCEPT !.gain =
                IF k <= Len(lv) THEN ScaledGain(@, lm, lv[k]) ELSE @]],
   subs |-> [k \in DOMAIN arr.subs |->
             [arr.subs[k] EXCEPT !.gain =
                IF k <= Len(slv) THEN ScaledGain(@, lm, slv[k]) ELSE @]]]

\* the gain normalisation of get_levels on one array: bb and subs are the
\* speakers, lv and slv the measured levels, lm their broadband minimum
NormalizeGains(arr, lv, slv, lm) ==
  LET g1 == [k \in DOMAIN arr.bb |->
               IF k <= Len(lv) THEN ScaledGain(arr.bb[k].gain, lm, lv[k])
               ELSE arr.bb[k].gain]
      s1 == [k \in DOMAIN arr.subs |->
               IF k <= Len(slv) THEN ScaledGain(arr.subs[k].gain, lm, slv[k])
               ELSE arr.subs[k].gain]
      mx == RMaxOf([k \in 1..Len(lv) |-> g1[k]], 1, RZero)
  IN  [bb |-> [k \in DOMAIN arr.bb |->
                 [arr.bb[k] EXCEPT !.gain =
                    IF k <= Len(lv) THEN RDiv(g1[k], mx) ELSE g1[k]]],
       subs |-> [k \in DOMAIN arr.subs |->
                 [arr.subs[k] EXCEPT !.gain =
                    IF k <= Len(slv) THEN RDiv(s1[k], mx) ELSE s1[k]]]]

\* the index of the response vector the re-fit of subwoofer k uses: the loop
\* over recspk->spkpos.subs never increments k
SubRefitIndex(k) == 1

\* the equalizer re-fit of get_levels on one speaker, against response resp
Refit(spk, stages, B, resp) ==
  IF stages /= 0
    THEN [spk EXCEPT !.eq = OptimResponse(stages, B, resp),
                     !.eqfreq = B, !.eqgain = <<resp>>, !.eqstages = stages]
    ELSE [spk EXCEPT !.eqfreq = 0, !.eqgain = <<>>, !.eqstages = stages]

RefitArray(arr, fc, vf, vg) ==
  [bb |-> [k \in DOMAIN arr.bb |->
             Refit(arr.bb[k], fc["bb"], vf["bb"],
                   IF fc["bb"] /= 0 THEN vg["bb"][k] ELSE 0)],
   subs |-> [k \in DOMAIN arr.subs |->
             Refit(arr.subs[k], fc["sub"], vf["sub"],
                   IF fc["sub"] /= 0 THEN vg["sub"][SubRefitIndex(k)] ELSE 0)]]

\* ---------------------------------------------------------------- actions
\* the control context is free to call a method: none is running, the process
\* has not been aborted, and no session operation is under way
Idle ==
  /\ prog = <<>> /\ hist.calls < hist.budget
  /\ cur.res /= "abort" /\ session.ctl = NoStep
At(kind) == prog /= <<>> /\ Head(prog).i = kind
Called(op, arg) ==
  /\ cur' = [op |-> op, arg |-> arg, res |-> "ok"]
  /\ hist' = [hist EXCEPT !.calls = @ + 1,
                          !.gain0 = IF op = "get_levels" THEN spkpos ELSE @,
                          !.reset = IF op = "get_levels" THEN cur.op = "reset_levels"
                                    ELSE @,
                          !.lr0 = IF op = "get_levels" THEN levelsrecorded ELSE @]

\* the control context calls set_active(b)
CallSetActive ==
  /\ Idle
  /\ \E b \in BOOLEAN : prog' = SetActiveCode(b) /\ Called("set_active", b)
  /\ UNCHANGED <<session, recbuf, mutevars, spkpos, spk_file, levelvars, flagvars, calibvars, par,
                 eqvars, disk>>

\* the control context calls set_active_diff(b)
CallSetActiveDiff ==
  /\ Idle
  /\ \E b \in BOOLEAN : prog' = SetActiveDiffCode(b) /\ Called("set_active_diff", b)
  /\ UNCHANGED <<session, recbuf, mutevars, spkpos, spk_file, levelvars, flagvars, calibvars, par,
                 eqvars, disk>>

\* the control context calls get_levels()
CallGetLevels ==
  /\ Idle
  /\ prog' = GetLevelsCode(NSpk, NSub, par)
  /\ Called("get_levels", FALSE)
  /\ UNCHANGED <<session, recbuf, mutevars, spkpos, spk_file, levelvars, flagvars, calibvars, par,
                 eqvars, disk>>

\* x->set_mute(v)
StepMute ==
  /\ At("mute")
  /\ mute' = [mute EXCEPT ![Head(prog).t] = Head(prog).v]
  /\ prog' = Tail(prog)
  /\ UNCHANGED <<session, recbuf, loc, spkpos, spk_file, levelvars, flagvars, calibvars, par, eqvars,
                 disk, cur, hist>>

\* src->dlocation = pos_t(1, 0, 0)
StepLoc ==
  /\ At("loc")
  /\ loc' = [loc EXCEPT ![Head(prog).t] = "front"]
  /\ prog' = Tail(prog)
  /\ UNCHANGED <<session, recbuf, mute, spkpos, spk_file, levelvars, flagvars, calibvars, par, eqvars,
                 disk, cur, hist>>

\* calibrated = true / calibrated_diff = true
StepFlag ==
  /\ At("flag")
  /\ calibrated' = (calibrated \/ Head(prog).t = "calibrated")
  /\ calibrated_diff' = (calibrated_diff \/ Head(prog).t = "calibrated_diff")
  /\ prog' = Tail(prog)
  /\ UNCHANGED <<session, recbuf, mutevars, spkpos, spk_file, levelvars, gainmodified, levelsrecorded,
                 calibvars, par, eqvars, disk, cur, hist>>

\* get_fresp_: vF.clear(); vGain.clear(); numflt = 0u
StepFrespBegin ==
  /\ At("fresp_begin")
  /\ LET ph == Head(prog).t IN
       /\ vF' = [vF EXCEPT ![ph] = 0]
       /\ vGains' = [vGains EXCEPT ![ph] = <<>>]
       /\ numflt' = 0
  /\ prog' = Tail(prog)
  /\ UNCHANGED <<session, recbuf, mutevars, spkpos, spk_file, levelvars, flagvars, calibvars, par,
                 fcomp, disk, cur, hist>>

\* the speakers of spk_nsp a phase measures
PhaseField(ph) == IF ph = "bb" THEN "bb" ELSE "subs"

\* get_fresp_: spk.eqstages = 0u; src.dlocation = spk.unitvector
StepFrespMove ==
  /\ At("fresp_move")
  /\ LET ph == Head(prog).t
         k == Head(prog).k
     IN  /\ spkpos' = [spkpos EXCEPT !["nsp"][PhaseField(ph)][k].eqstages = 0]
         /\ loc' = [loc EXCEPT ![ph] = <<ph, k>>]
  /\ prog' = Tail(prog)
  /\ UNCHANGED <<session, recbuf, mute, spk_file, levelvars, flagvars, calibvars, par, eqvars,
                 disk, cur, hist>>

\* the relative response curve vLmean measured for speaker k of phase ph in
\* room condition r: different speakers have different curves
Response(ph, k, r) == <<ph, k, r>>

\* get_fresp_: jackrec.rec(recbuf, ports) returns, the band analysis yields the
\* response resp over par.nbands bands, the equalizer of the speaker is fitted.
\* With no band at all vLmean is empty and vLmean.back() is undefined: the
\* process is aborted, or the call goes on with whatever value was read
StepFrespRec ==
  /\ At("fresp_rec")
  /\ \E r \in 0..MaxResp, ub \in {"goes on", "abort"} :
       LET ph == Head(prog).t
           k == Head(prog).k
           resp == Response(ph, k, r)
           B == par[ph].nbands
           nf == IF numflt = 0 THEN Numflt(B, par[ph].max_eqstages) ELSE numflt
       IN  IF B = 0 /\ ub = "abort"
             THEN /\ prog' = <<>>
                  /\ cur' = [cur EXCEPT !.res = "abort"]
                  /\ UNCHANGED <<spkpos, vF, vGains, numflt, recbuf>>
             ELSE /\ B = 0 \/ ub = "goes on"
                  /\ vF' = [vF EXCEPT ![ph] = B]
                  /\ vGains' = [vGains EXCEPT ![ph] = Append(@, resp)]
                  /\ numflt' = nf
                  /\ recbuf' = [recbuf EXCEPT !.vLmean = ChannelMean(recbuf.ms)]
                  /\ spkpos' = [spkpos EXCEPT !["nsp"][PhaseField(ph)][k] =
                                  [@ EXCEPT !.eq = OptimResponse(nf, B, resp),
                                            !.eqfreq = B, !.eqgain = <<resp>>,
                                            !.eqstages = nf]]
                  /\ prog' = Tail(prog)
                  /\ UNCHANGED cur
  /\ UNCHANGED <<session, mutevars, spk_file, levelvars, flagvars, calibvars, par,
                 fcomp, disk, hist>>

\* fcomp_bb = get_fresp_(...) / fcomp_sub = get_fresp_(...): the value returned,
\* 0u at once when max_eqstages == 0
StepFrespRet ==
  /\ At("fresp_ret")
  /\ fcomp' = [fcomp EXCEPT ![Head(prog).t] = IF Head(prog).v THEN numflt ELSE 0]
  /\ prog' = Tail(prog)
  /\ UNCHANGED <<session, recbuf, mutevars, spkpos, spk_file, levelvars, flagvars, calibvars, par,
                 vF, vGains, numflt, disk, cur, hist>>

\* get_levels_: levels.clear()
StepLevBegin ==
  /\ At("lev_begin")
  /\ IF Head(prog).t = "bb"
       THEN levels' = <<>> /\ UNCHANGED sublevels
       ELSE sublevels' = <<>> /\ UNCHANGED levels
  /\ prog' = Tail(prog)
  /\ UNCHANGED <<session, recbuf, mutevars, spkpos, spk_file, lmin, lmax, lmean, flagvars, calibvars,
                 par, eqvars, disk, cur, hist>>

\* get_levels_: src.dlocation = spk.unitvector
StepLevMove ==
  /\ At("lev_move")
  /\ loc' = [loc EXCEPT ![Head(prog).t] = <<Head(prog).t, Head(prog).k>>]
  /\ prog' = Tail(prog)
  /\ UNCHANGED <<session, recbuf, mute, spkpos, spk_file, levelvars, flagvars, calibvars, par, eqvars,
                 disk, cur, hist>>

\* get_levels_: jackrec.rec(recbuf, ports) returns, the energy is averaged
\* over the channels and the level l measured for the speaker is pushed
StepLevRec ==
  /\ At("lev_rec")
  /\ \E l \in 0..MaxLevel :
       IF Head(prog).t = "bb"
         THEN levels' = Append(levels, l) /\ UNCHANGED sublevels
         ELSE sublevels' = Append(sublevels, l) /\ UNCHANGED levels
  /\ recbuf' = [recbuf EXCEPT !.lev_sqr = ChannelMean(recbuf.ms)]
  /\ prog' = Tail(prog)
  /\ UNCHANGED <<session, mutevars, spkpos, spk_file, lmin, lmax, lmean, flagvars, calibvars,
                 par, eqvars, disk, cur, hist>>

\* jackrec.rec(recbuf, ports) raises an error, in get_fresp_ or in
\* get_levels_: neither of them nor get_levels catches it, so get_levels is
\* left at once with the error
CaptureFails ==
  /\ At("fresp_rec") \/ At("lev_rec")
  /\ prog' = <<>>
  /\ cur' = [cur EXCEPT !.res = "error"]
  /\ hist' = [hist EXCEPT !.failed = TRUE]
  /\ UNCHANGED <<session, recbuf, mutevars, spkpos, spk_file, levelvars, flagvars,
                 calibvars, par, eqvars, disk>>

\* the gain vectors of both arrays
GainsOf(sp) ==
  [r \in Receivers |-> [bb |-> [k \in DOMAIN sp[r].bb |-> sp[r].bb[k].gain],
                         subs |-> [k \in DOMAIN sp[r].subs |-> sp[r].subs[k].gain]]]

\* for(auto recspk : {spk_nsp, spk_spec}): the arrays the gain and equalizer
\* updates of get_levels and reset_levels run over
UpdatedArrays == {"nsp", "spec"}

\* get_levels: convert levels into gains, update gains and equalizers of all
\* receiver objects, levelsrecorded = true
StepNormalize ==
  /\ At("normalize")
  /\ lmin' = MinOf(levels, 1)
  /\ lmax' = MaxOf(levels, 1)
  /\ lmean' = Rat(SumOf(levels, 1), Len(levels))
  /\ spkpos' = [r \in Receivers |->
                  IF r \in UpdatedArrays
                    THEN RefitArray(NormalizeGains(spkpos[r], levels, sublevels, lmin'),
                                    fcomp, vF, vGains)
                    ELSE spkpos[r]]
  /\ levelsrecorded' = TRUE
  /\ prog' = Tail(prog)
  /\ hist' = [hist EXCEPT !.runs =
                IF hist.reset
                  THEN <<[levels |-> levels, sublevels |-> sublevels,
                          gains |-> GainsOf(spkpos')]>> \o SubSeq(@, 1, Min2(1, Len(@)))
                  ELSE @]
  /\ UNCHANGED <<session, recbuf, mutevars, spk_file, levels, sublevels, gainmodified, calibrated,
                 calibrated_diff, calibvars, par, eqvars, disk, cur>>

\* reset_levels that leaves the subwoofer gains alone
ResetGainsKeepsSubs(arr, n, s) ==
  [bb |-> [k \in DOMAIN arr.bb |->
             IF k <= n THEN [arr.bb[k] EXCEPT !.gain = ROne] ELSE arr.bb[k]],
   subs |-> arr.subs]

\* void calibsession_t::reset_levels()
ResetGains(arr, n, s) ==
  [bb |-> [k \in DOMAIN arr.bb |->
             IF k <= n THEN [arr.bb[k] EXCEPT !.gain = ROne] ELSE arr.bb[k]],
   subs |-> [k \in DOMAIN arr.subs |->
             IF k <= s THEN [arr.subs[k] EXCEPT !.gain = ROne] ELSE arr.subs[k]]]

ResetLevels ==
  /\ Idle
  /\ levelsrecorded' = FALSE
  /\ spkpos' = [r \in Receivers |->
                  IF r \in UpdatedArrays
                    THEN ResetGains(spkpos[r], Len(levels), Len(sublevels))
                    ELSE spkpos[r]]
  /\ Called("reset_levels", FALSE)
  /\ UNCHANGED <<session, recbuf, mutevars, spk_file, levelvars, gainmodified, calibrated,
                 calibrated_diff, calibvars, par, eqvars, disk, prog>>

\* the new level computed against a reference pressure of 1e-5 Pa
NewLevelPaWrongReference(sl, d) == RMul(<<1, 100000>>, Pow10_05(sl + d))

\* double newlevel_pa(2e-5 * pow(10.0, 0.05 * (startlevel + delta)))
NewLevelPa(sl, d) == RMul(<<1, 50000>>, Pow10_05(sl + d))

\* void calibsession_t::inc_caliblevel(double dl)
IncCaliblevel ==
  /\ Idle
  /\ \E dl \in -MaxDelta..MaxDelta :
       /\ gainmodified' = TRUE
       /\ delta' = delta + dl
       /\ caliblevel' = [r \in Receivers |-> NewLevelPa(startlevel, delta')]
       /\ cur' = [op |-> "inc_caliblevel", arg |-> dl, res |-> "ok"]
       /\ hist' = [hist EXCEPT !.calls = @ + 1, !.dsum = @ + dl]
  /\ UNCHANGED <<session, recbuf, mutevars, spkpos, spk_file, levelvars, levelsrecorded, calibrated,
                 calibrated_diff, startlevel, startdiffgain, delta_diff, diffusegain,
                 par, eqvars, disk, prog>>

\* double gain(pow(10.0, 0.05 * (startdiffgain + delta_diff)))
NewDiffuseGain(sg, d) == Pow10_05(sg + d)

\* void calibsession_t::inc_diffusegain(double dl)
IncDiffusegain ==
  /\ Idle
  /\ \E dl \in -MaxDelta..MaxDelta :
       /\ gainmodified' = TRUE
       /\ delta_diff' = delta_diff + dl
       /\ diffusegain' = [r \in Receivers |-> NewDiffuseGain(startdiffgain, delta_diff')]
  /\ Called("inc_diffusegain", FALSE)
  /\ UNCHANGED <<session, recbuf, mutevars, spkpos, spk_file, levelvars, levelsrecorded, calibrated,
                 calibrated_diff, startlevel, startdiffgain, delta, caliblevel,
                 par, eqvars, disk, prog>>

\* saveas: std::vector<double> gains, computed from spk_file and the levels and
\* never used afterwards
SaveasGains(sf, lv) ==
  [k \in 1..Len(lv) |-> Log10_20(sf.bb[k]) + MinOf(lv, 1) - lv[k]]

\* the gain attribute taken from the speaker before
SavedGainOffByOne(spks, k) == Log10_20(spks[IF k > 1 THEN k - 1 ELSE 1].gain)

\* saveas: the gain attribute written to the k-th element (k counted from 1) of
\* the speakers spks of spk_spec: spks[std::min(k, spks.size() - 1)]
SavedGain(spks, k) == Log10_20(spks[Min2(k, Len(spks))].gain)

\* saveas: the document written, from the document doc loaded from spkname;
\* cf is the calibfor member
SavedDoc(doc, arr, fc, cl, dg, cf) ==
  [doc EXCEPT !.caliblevel = Get_caliblevel(cl),
              !.diffusegain = Get_diffusegain(dg),
              !.gain = [k \in DOMAIN doc.gain |-> SavedGain(arr.bb, k)],
              !.eqstages = [k \in DOMAIN doc.gain |-> fc["bb"]],
              !.subgain = [k \in DOMAIN doc.subgain |-> SavedGain(arr.subs, k)],
              !.subeqstages = [k \in DOMAIN doc.subgain |-> fc["sub"]],
              !.calibfor = cf,
              !.saved = TRUE]

\* saveas: doc.root.get_element_name() != "layout" throws
RootIsLayout(doc) == doc.root = "layout"

\* doc.save(fname) on the files d; io tells whether the write succeeds.  The
\* document replaces the file as a whole, a failed write leaves the file as it
\* was
DocSave(d, fname, doc, io) == IF io THEN [d EXCEPT ![fname] = doc] ELSE d

\* saveas that writes to the original layout path whatever fname is
SaveasTargetOriginal(fname) == "orig"

\* saveas: the file handed to doc.save
SaveasTarget(fname) == fname

\* the flags cleared whether or not saveas got to its end
SaveasFlagsAlwaysCleared(done, fl) == FlagsOf(FALSE, FALSE, FALSE, FALSE)

\* the flags cleared except calibrated_diff
SaveasFlagsKeepsDiff(done, fl) ==
  IF done THEN FlagsOf(FALSE, FALSE, FALSE, fl.calibrated_diff) ELSE fl

\* saveas: gainmodified = false; levelsrecorded = false; calibrated = false;
\* calibrated_diff = false, reached only when nothing before has thrown
SaveasFlags(done, fl) ==
  IF done THEN FlagsOf(FALSE, FALSE, FALSE, FALSE) ELSE fl

\* the body of saveas(fname), entered through method op; io tells whether the
\* write of the file succeeds
SaveasBody(op, fname, io) ==
  LET doc == disk["orig"]
      done == RootIsLayout(doc) /\ io
      fl0 == FlagsOf(gainmodified, levelsrecorded, calibrated, calibrated_diff)
      fl == SaveasFlags(done, fl0)
  IN  /\ disk' = IF RootIsLayout(doc)
                   THEN DocSave(disk, SaveasTarget(fname),
                                SavedDoc(doc, spkpos["spec"], fcomp, caliblevel,
                                         diffusegain, session.calibfor), io)
                   ELSE disk
      /\ gainmodified' = fl.gainmodified
      /\ levelsrecorded' = fl.levelsrecorded
      /\ calibrated' = fl.calibrated
      /\ calibrated_diff' = fl.calibrated_diff
      /\ cur' = [op |-> op, arg |-> fname,
                 res |-> IF done THEN "ok" ELSE "error"]
      /\ hist' = [hist EXCEPT !.calls = @ + 1,
                              !.pre = [flags |-> fl0, disk |-> disk]]
      /\ UNCHANGED <<session, recbuf, mutevars, spkpos, spk_file, levelvars, calibvars,
                     par, eqvars, prog>>

\* void calibsession_t::saveas(const std::string& fname)
Saveas ==
  /\ Idle
  /\ \E fname \in Files, io \in BOOLEAN : SaveasBody("saveas", fname, io)

\* void calibsession_t::save(): saveas(spkname)
Save ==
  /\ Idle
  /\ \E io \in BOOLEAN : SaveasBody("save", "orig", io)

\* the file at spkname is replaced, from outside, by a document that is not a
\* layout; saveas loads the file anew on every call
ReplaceLayoutFile ==
  /\ RootIsLayout(disk["orig"])
  /\ disk' = [disk EXCEPT !["orig"] = NoDoc]
  /\ UNCHANGED <<session, recbuf, mutevars, spkpos, spk_file, levelvars, flagvars,
                 calibvars, par, eqvars, prog, cur, hist>>

\* ------------------------------------------------------ session runtime
\* session_t: start, stop, unload_modules, the audio callback process and the
\* lock, as the specification of the session runtime describes them
calibmembers == <<mutevars, spkpos, spk_file, levelvars, flagvars, calibvars, par,
                  eqvars, recbuf, disk, prog, cur, hist>>

NMod == Len(session.modules)

\* the control context is not inside a calibration method or a session operation
CtlFree == prog = <<>> /\ cur.res /= "abort" /\ session.ctl = NoStep

\* the step after handling module m in a loop over the modules
NextModule(kind, m, after) == IF m < NMod THEN <<kind, m + 1>> ELSE after

\* start that activates the transport before the modules are prepared
SessStartActivatesFirst ==
  /\ CtlFree /\ ~session.started
  /\ session' = [session EXCEPT !.active = TRUE,
                                !.ctl = NextModule("prepare", 0, <<"activate", 0>>)]
  /\ UNCHANGED calibmembers

\* session_t::start() is called in state Configured
SessStart ==
  /\ CtlFree /\ ~session.started
  /\ session' = [session EXCEPT !.ctl = NextModule("prepare", 0, <<"activate", 0>>)]
  /\ UNCHANGED calibmembers

\* start: module_t::prepare on the next module
SessPrepare ==
  /\ session.ctl[1] = "prepare"
  /\ LET m == session.ctl[2]
     IN  session' = [session EXCEPT !.mod[m] = "prepared",
                                    !.ctl = NextModule("prepare", m, <<"activate", 0>>)]
  /\ UNCHANGED calibmembers

\* start: the transport and the audio callback are activated, the session is Running
SessActivate ==
  /\ session.ctl = <<"activate", 0>>
  /\ session' = [session EXCEPT !.started = TRUE, !.active = TRUE, !.ctl = NoStep]
  /\ UNCHANGED calibmembers

\* session_t::stop() is called in state Running: the transport is deactivated,
\* no further cycle begins
SessStop ==
  /\ CtlFree /\ session.started
  /\ session' = [session EXCEPT !.active = FALSE, !.ctl = <<"stop", 0>>]
  /\ UNCHANGED calibmembers

\* stop that does not wait for the cycle in flight
SessStopNoWait ==
  /\ session.ctl = <<"stop", 0>>
  /\ session' = [session EXCEPT !.started = FALSE,
                                !.ctl = NextModule("release", 0, NoStep)]
  /\ UNCHANGED calibmembers

\* stop: the deactivation returns once no cycle is in flight; the session is
\* Configured and the modules are released next
SessStopWait ==
  /\ session.ctl = <<"stop", 0>>
  /\ session.rt = NoStep
  /\ session' = [session EXCEPT !.started = FALSE,
                                !.ctl = NextModule("release", 0, NoStep)]
  /\ UNCHANGED calibmembers

\* stop: module_t::release on the next module
SessRelease ==
  /\ session.ctl[1] = "release"
  /\ LET m == session.ctl[2]
     IN  session' = [session EXCEPT !.mod[m] = "released",
                                    !.ctl = NextModule("release", m, NoStep)]
  /\ UNCHANGED calibmembers

\* session_t::unload_modules() is called while the session is not Running
SessUnload ==
  /\ CtlFree /\ ~session.started /\ NMod > 0
  /\ session' = [session EXCEPT !.ctl = <<"unload", 1>>]
  /\ UNCHANGED calibmembers

\* unload_modules: the next module is released, if it is prepared, and
\* unloaded; after the last one the module list is empty
SessUnloadModule ==
  /\ session.ctl[1] = "unload"
  /\ LET m == session.ctl[2]
     IN  session' = [session EXCEPT !.mod[m] = "unloaded",
                                    !.modules = IF m < NMod THEN @ ELSE <<>>,
                                    !.ctl = NextModule("unload", m, NoStep)]
  /\ UNCHANGED calibmembers

\* the transport invokes session_t::process: a cycle begins
RtBegin ==
  /\ session.active /\ session.rt = NoStep
  /\ session' = [session EXCEPT !.rt = NextModule("update", 0, <<"sync", 0>>),
                                !.missed = FALSE]
  /\ UNCHANGED calibmembers

\* process: module_t::update on the next module of the list
RtUpdate ==
  /\ session.rt[1] = "update"
  /\ LET m == session.rt[2]
     IN  session' = [session EXCEPT !.upd = @ \cup {<<m, session.mod[m]>>},
                                    !.rt = NextModule("update", m, <<"sync", 0>>)]
  /\ UNCHANGED calibmembers

\* the audio callback taking the lock with the blocking acquire
RtLockBlocking ==
  /\ session.rt = <<"sync", 0>>
  /\ session.mtx = "free"
  /\ session' = [session EXCEPT !.mtx = "rt", !.rt = <<"read", 0>>]
  /\ UNCHANGED calibmembers

\* process: trylock_vars() returns at once; on success the callback holds the
\* lock, on failure the cycle goes on with the values of the previous cycle
RtTryLock ==
  /\ session.rt = <<"sync", 0>>
  /\ session' = IF session.mtx = "free"
                  THEN [session EXCEPT !.mtx = "rt", !.rt = <<"read", 0>>]
                  ELSE [session EXCEPT !.missed = TRUE, !.rt = <<"render", 0>>]
  /\ UNCHANGED calibmembers

\* process: under the lock the callback takes over the shared configuration,
\* then unlock_vars()
RtRead ==
  /\ session.rt = <<"read", 0>>
  /\ session' = [session EXCEPT !.cache = session.shared, !.stale = FALSE,
                                !.mtx = "free", !.rt = <<"render", 0>>]
  /\ UNCHANGED calibmembers

\* process: rendering with the values the callback has; the cycle ends
RtEnd ==
  /\ session.rt = <<"render", 0>>
  /\ session' = [session EXCEPT !.rt = NoStep]
  /\ UNCHANGED calibmembers

\* the control path of the session calls lock_vars(), which blocks while the
\* lock is taken
CtlLock ==
  /\ CtlFree /\ session.mtx = "free"
  /\ session' = [session EXCEPT !.mtx = "ctl", !.ctl = <<"locked", 0>>]
  /\ UNCHANGED calibmembers

\* under the lock the control path changes the shared configuration
CtlMutate ==
  /\ session.ctl = <<"locked", 0>>
  /\ session' = [session EXCEPT !.shared = 1 - @, !.stale = TRUE,
                                !.ctl = <<"locked", 1>>]
  /\ UNCHANGED calibmembers

\* unlock_vars()
CtlUnlock ==
  /\ session.ctl = <<"locked", 1>>
  /\ session' = [session EXCEPT !.mtx = "free", !.ctl = NoStep]
  /\ UNCHANGED calibmembers

\* ----------------------------------------------------------- specification
MaxEq == 1       \* max_eqstages of a parameter block: 0..MaxEq
BandCounts == {4}

ParamSet ==
  [Sources -> [max_eqstages : 0..MaxEq, nbands : BandCounts]]

\* the sessions constructed on a layout of 1..MaxSpk speakers and 0..MaxSub
\* subwoofers with gains from G, caliblevel from CL, diffusegain from DG and
\* parameters from P
InitOf(G, CL, DG, P, budget) ==
  \E n \in 1..MaxSpk, s \in 0..MaxSub :
    \E g \in [1..n -> G], sg \in [1..s -> G], cl \in CL, dg \in DG, p \in P :
      Construct(g, sg, cl, dg, p, budget)

Init == InitOf({0}, {0}, {0}, ParamSet, MaxOps)

Next ==
  \/ CallSetActive
  \/ CallSetActiveDiff
  \/ CallGetLevels
  \/ ResetLevels
  \/ IncCaliblevel
  \/ IncDiffusegain
  \/ Saveas
  \/ StepMute
  \/ StepLoc
  \/ StepFlag
  \/ StepFrespBegin
  \/ StepFrespMove
  \/ StepFrespRec
  \/ StepFrespRet
  \/ StepLevBegin
  \/ StepLevMove
  \/ StepLevRec
  \/ StepNormalize
  \/ CaptureFails

Spec == Init /\ [][Next]_vars

\* the gain path alone: measurement, reset and save on layouts whose stored
\* gains differ
MaxGainOps == 3  \* calls of calibration methods in one behaviour of SpecGain
AlikeParams == {p \in ParamSet : p["bb"] = p["sub"]}
InitGain == InitOf(-MaxFileGain..0, {0}, {0}, AlikeParams, MaxGainOps)

NextGain ==
  \/ CallGetLevels
  \/ ResetLevels
  \/ Saveas
  \/ StepMute
  \/ StepLoc
  \/ StepFrespBegin
  \/ StepFrespMove
  \/ StepFrespRec
  \/ StepFrespRet
  \/ StepLevBegin
  \/ StepLevMove
  \/ StepLevRec
  \/ StepNormalize

SpecGain == InitGain /\ [][NextGain]_vars

\* repeated measurement: reset_levels and get_levels, often enough for two
\* reset-and-measure runs
MaxRerunOps == 4 \* calls of calibration methods in one behaviour of SpecRerun
InitRerun == InitOf(-MaxFileGain..0, {0}, {0}, AlikeParams, MaxRerunOps)

NextRerun ==
  \/ CallGetLevels
  \/ ResetLevels
  \/ StepMute
  \/ StepLoc
  \/ StepFrespBegin
  \/ StepFrespMove
  \/ StepFrespRec
  \/ StepFrespRet
  \/ StepLevBegin
  \/ StepLevMove
  \/ StepLevRec
  \/ StepNormalize

SpecRerun == InitRerun /\ [][NextRerun]_vars

\* the level path alone: caliblevel and diffuse gain increments and save
MaxCalibOps == 4 \* calls of calibration methods in one behaviour of SpecCalib
MaxCalib == 1    \* caliblevel / diffusegain stored in the layout: 0..MaxCalib
InitCalib == InitOf({0}, 0..MaxCalib, 0..MaxCalib, {[s \in Sources |->
                      [max_eqstages |-> 0, nbands |-> 4]]}, MaxCalibOps)

NextCalib ==
  \/ IncCaliblevel
  \/ IncDiffusegain
  \/ Saveas

SpecCalib == InitCalib /\ [][NextCalib]_vars

\* persistence: every method that sets a flag, then saveas / save, on a layout
\* of one speaker; the layout file may be replaced from outside
MaxSaveOps == 5  \* calls of calibration methods in one behaviour of SpecSave
NoEq == [s \in Sources |-> [max_eqstages |-> 0, nbands |-> 4]]
InitSave == \E g \in -MaxFileGain..0 : Construct(<<g>>, <<>>, 0, 0, NoEq, MaxSaveOps)

NextSave ==
  \/ CallSetActive
  \/ CallSetActiveDiff
  \/ CallGetLevels
  \/ IncCaliblevel
  \/ IncDiffusegain
  \/ Saveas
  \/ Save
  \/ ReplaceLayoutFile
  \/ StepMute
  \/ StepLoc
  \/ StepFlag
  \/ StepFrespRet
  \/ StepLevBegin
  \/ StepLevMove
  \/ StepLevRec
  \/ StepNormalize

SpecSave == InitSave /\ [][NextSave]_vars

\* calibsession_t::calibsession_t up to the point where it has thrown or
\* returned: the calibfor attribute is parsed before add_scene and add_module,
\* the members are those of the object under construction
ConstructSession ==
  /\ cur.op = "new"
  /\ LET cf == CalibforOf(disk["orig"])
     IN  IF CalibforValid(cf)
           THEN /\ session' = Constructed(cf)
                /\ cur' = [cur EXCEPT !.op = "construct", !.res = "ok"]
           ELSE /\ session' = [EmptySession EXCEPT !.calibfor = cf]
                /\ cur' = [cur EXCEPT !.op = "construct", !.res = "error"]
  /\ UNCHANGED <<mutevars, spkpos, spk_file, levelvars, flagvars, calibvars, par,
                 eqvars, recbuf, disk, prog, hist>>

\* construction on layout files with every calibfor attribute of up to
\* MaxCalibforLen characters
MaxCalibforLen == 5
Chars == {"a", ":", ","}
StringsUpTo(n) == UNION {[1..k -> Chars] : k \in 0..n}

InitCtor ==
  \E cf \in StringsUpTo(MaxCalibforLen) :
    /\ disk = [orig |-> [LayoutDoc(<<0>>, <<>>, 0, 0) EXCEPT !.calibfor = cf],
               other |-> NoDoc]
    /\ cur = [op |-> "new", arg |-> FALSE, res |-> "ok"]
    /\ session = EmptySession
    /\ recbuf = Buffers(<<1, 1>>)
    /\ Members(<<0>>, <<>>, 0, 0, NoEq, 0)

NextCtor == ConstructSession

SpecCtor == InitCtor /\ [][NextCtor]_vars

\* the frequency response measurement over band counts from none to seven and
\* up to MaxEqStages equalizer stages
MaxEqStages == 2 \* max_eqstages of a parameter block: 0..MaxEqStages
MaxEqOps == 1    \* calls of get_levels in one behaviour of SpecEq
EqBandCounts == {0, 1, 4, 7}
EqParamSet == [Sources -> [max_eqstages : 0..MaxEqStages, nbands : EqBandCounts]]
InitEq == InitOf({0}, {0}, {0}, EqParamSet, MaxEqOps)

NextEq ==
  \/ CallGetLevels
  \/ StepMute
  \/ StepLoc
  \/ StepFrespBegin
  \/ StepFrespMove
  \/ StepFrespRec
  \/ StepFrespRet
  \/ StepLevBegin
  \/ StepLevMove
  \/ StepLevRec
  \/ StepNormalize

SpecEq == InitEq /\ [][NextEq]_vars

\* the session runtime under the calibration engine: start, stop,
\* unload_modules, audio cycles and the lock, with reset_levels and get_levels
\* on a layout of one speaker
MaxSessOps == 1  \* calls of calibration methods in one behaviour of SpecSession
InitSession ==
  \E g \in -MaxFileGain..0 : Construct(<<g>>, <<>>, 0, 0, NoEq, MaxSessOps)

NextSession ==
  \/ SessStart
  \/ SessPrepare
  \/ SessActivate
  \/ SessStop
  \/ SessStopWait
  \/ SessRelease
  \/ SessUnload
  \/ SessUnloadModule
  \/ RtBegin
  \/ RtUpdate
  \/ RtTryLock
  \/ RtRead
  \/ RtEnd
  \/ CtlLock
  \/ CtlMutate
  \/ CtlUnlock
  \/ ResetLevels
  \/ CallGetLevels
  \/ StepMute
  \/ StepLoc
  \/ StepFrespRet
  \/ StepLevBegin
  \/ StepLevMove
  \/ StepLevRec
  \/ StepNormalize

SpecSession == InitSession /\ [][NextSession]_vars

\* the measurement on layouts of up to MaxRefitSub subwoofers, each speaker
\* with a response curve of its own
MaxRefitSub == 2 \* subwoofers of a layout of SpecRefit: 0..MaxRefitSub
MaxRefitOps == 1 \* calls of get_levels in one behaviour of SpecRefit
InitRefit ==
  \E n \in 1..MaxSpk, s \in 0..MaxRefitSub, p \in ParamSet :
    Construct([k \in 1..n |-> 0], [k \in 1..s |-> 0], 0, 0, p, MaxRefitOps)

NextRefit ==
  \/ CallGetLevels
  \/ StepMute
  \/ StepLoc
  \/ StepFrespBegin
  \/ StepFrespMove
  \/ StepFrespRec
  \/ StepFrespRet
  \/ StepLevBegin
  \/ StepLevMove
  \/ StepLevRec
  \/ StepNormalize

SpecRefit == InitRefit /\ [][NextRefit]_vars

\* the measurement with 1..MaxRef reference microphones, each delivering an
\* energy of 1..MaxEnergy, the rendered reference channel likewise
MaxRef == 2      \* reference microphones (refport_.size()): 1..MaxRef
MaxEnergy == 2   \* energy of one channel of a capture: 1..MaxEnergy
MaxAvgOps == 1   \* calls of get_levels in one behaviour of SpecAvg
InitAvg ==
  \E n \in 1..MaxSpk, s \in 0..MaxSub, p \in ParamSet, nref \in 1..MaxRef :
    \E ms \in [1..nref + 1 -> 1..MaxEnergy] :
      ConstructOn([k \in 1..n |-> 0], [k \in 1..s |-> 0], 0, 0, p, MaxAvgOps, ms)

NextAvg ==
  \/ CallGetLevels
  \/ StepMute
  \/ StepLoc
  \/ StepFrespBegin
  \/ StepFrespMove
  \/ StepFrespRec
  \/ StepFrespRet
  \/ StepLevBegin
  \/ StepLevMove
  \/ StepLevRec
  \/ StepNormalize

SpecAvg == InitAvg /\ [][NextAvg]_vars

\* ------------------------------------------------------------------ claims
Stimuli == {"bb", "sub", "diff"}
Unmuted == {x \in Stimuli : ~mute[x]}
Running(op) == cur.op = op /\ prog /= <<>>
Returned(op) == cur.op = op /\ prog = <<>> /\ cur.res = "ok"
Threw(op) == cur.op = op /\ prog = <<>> /\ cur.res = "error"
Capturing(ph) == (At("fresp_rec") \/ At("lev_rec")) /\ Head(prog).t = ph

\* C1: in every state, also inside the methods, at most one of the broadband
\* source, the subwoofer source and the diffuse field is unmuted.
C1_NoTwoStimuli == Cardinality(Unmuted) <= 1

C3_IdleBothSourcesMuted ==
  Returned("set_active") =>
    mute["bb"] /\ mute["sub"] /\ ~mute["spec"] /\ mute["nsp"]

\* C3 as amended: when set_active(true) has returned the broadband source is
\* unmuted, the subwoofer source and the diffuse field are muted, spec is
\* unmuted and nsp muted; when set_active(false) has returned both sources are
\* muted, nsp is unmuted and spec muted.
C3_SetActiveRouting ==
  Returned("set_active") =>
    IF cur.arg
      THEN ~mute["bb"] /\ mute["sub"] /\ mute["diff"] /\ ~mute["spec"] /\ mute["nsp"]
      ELSE mute["bb"] /\ mute["sub"] /\ mute["spec"] /\ ~mute["nsp"]

\* set_active(true) has returned and the diffuse field had been active before
C3_Witness == Returned("set_active") /\ cur.arg /\ calibrated_diff

\* C4: when set_active_diff(true) has returned, the diffuse field is unmuted,
\* both point sources are muted, spec is unmuted and nsp is muted.
C4_DiffusePhase ==
  (Returned("set_active_diff") /\ cur.arg) =>
    ~mute["diff"] /\ mute["bb"] /\ mute["sub"] /\ ~mute["spec"] /\ mute["nsp"]

\* set_active_diff(true) has returned right after set_active(true), which had
\* left the broadband source unmuted
C4_Witness ==
  Returned("set_active_diff") /\ cur.arg /\ calibrated /\ hist.calls = 2

\* C5: during every capture of the broadband phase of get_levels the
\* subwoofer source is muted, the broadband source unmuted, spec muted and nsp
\* unmuted; during every capture of the subwoofer phase the broadband source
\* is muted and the subwoofer source unmuted, with the same receivers.
C5_CaptureRouting ==
  /\ Capturing("bb") => mute["sub"] /\ ~mute["bb"] /\ mute["spec"] /\ ~mute["nsp"]
  /\ Capturing("sub") => mute["bb"] /\ ~mute["sub"] /\ mute["spec"] /\ ~mute["nsp"]

\* a capture of the subwoofer phase of a get_levels that was called in the
\* diffuse phase (spec unmuted, nsp muted)
C5_Witness == Capturing("sub") /\ calibrated_diff /\ ~mute["diff"]

\* C6: when get_levels has returned, the maximum gain over the broadband
\* speakers is exactly 1 in the nsp array and in the spec array.
C6_MaxGainIsOne ==
  Returned("get_levels") =>
    \A r \in Receivers :
      /\ \E k \in 1..NSpk : spkpos[r].bb[k].gain = ROne
      /\ \A k \in 1..NSpk : ~RLess(ROne, spkpos[r].bb[k].gain)

\* get_levels has returned on two speakers with different levels whose gains
\* differed when it was called
C6_Witness ==
  /\ Returned("get_levels") /\ NSpk = 2 /\ levels[1] /= levels[2]
  /\ hist.gain0["spec"].bb[1].gain /= hist.gain0["spec"].bb[2].gain

\* C7 as claimed: when get_levels has returned, every pair k, j of broadband
\* speakers has gain_k / gain_j = 10^((L_j - L_k)/20).
C7_RatioFromLevels ==
  Returned("get_levels") =>
    \A r \in Receivers : \A k, j \in 1..NSpk :
      RDiv(spkpos[r].bb[k].gain, spkpos[r].bb[j].gain)
        = Pow10_05(levels[j] - levels[k])

\* C7 as amended: when get_levels has returned, every pair k, j of broadband
\* speakers has gain_k / gain_j = (g0_k / g0_j) * 10^((L_j - L_k)/20), g0 being
\* the gains when get_levels was called; the division by the maximum gain
\* leaves the ratio as the level update made it.
C7_RatioFromLevelsAndPriorGains ==
  Returned("get_levels") =>
    \A r \in Receivers : \A k, j \in 1..NSpk :
      RDiv(spkpos[r].bb[k].gain, spkpos[r].bb[j].gain)
        = RMul(RDiv(hist.gain0[r].bb[k].gain, hist.gain0[r].bb[j].gain),
               Pow10_05(levels[j] - levels[k]))

\* get_levels has returned on two speakers with different levels and
\* different prior gains
C7_Witness ==
  /\ Returned("get_levels") /\ NSpk = 2 /\ levels[1] < levels[2]
  /\ RLess(hist.gain0["nsp"].bb[1].gain, hist.gain0["nsp"].bb[2].gain)

C9_CaliblevelAccumulates ==
  Get_caliblevel(caliblevel) = hist.level0 + hist.dsum

\* inc_caliblevel(d); inc_caliblevel(-d) with d /= 0 has returned
C9_Witness ==
  /\ Returned("inc_caliblevel") /\ cur.arg /= 0
  /\ hist.calls = 2 /\ hist.dsum = 0 /\ gainmodified

Flags == FlagsOf(gainmodified, levelsrecorded, calibrated, calibrated_diff)

\* C11: when saveas (or save) has completed successfully, gainmodified,
\* levelsrecorded, calibrated and calibrated_diff are all false, whatever
\* calls of inc_caliblevel, inc_diffusegain, get_levels, set_active and
\* set_active_diff came before.
C11_SaveasClearsFlags ==
  (Returned("saveas") \/ Returned("save")) =>
    Flags = FlagsOf(FALSE, FALSE, FALSE, FALSE)

\* saveas has returned and all four flags were true when it was called
C11_Witness ==
  Returned("saveas") /\ hist.pre.flags = FlagsOf(TRUE, TRUE, TRUE, TRUE)

\* a step that is a whole call of method op
CallOf(op) == cur'.op = op /\ hist'.calls = hist.calls + 1

\* C12: a saveas (or save) that finds a root element other than "layout"
\* fails, and whenever saveas fails (wrong root, or the write fails) every file
\* on disk keeps the content it had before the call and the four flags keep
\* the values they had before the call.
C12_FailedSaveKeepsState ==
  [][(CallOf("saveas") \/ CallOf("save")) =>
       /\ ~RootIsLayout(disk["orig"]) => cur'.res = "error"
       /\ cur'.res = "error" => (disk' = disk /\ Flags' = Flags)]_vars

\* saveas has failed on a file whose root is not "layout", with all four
\* flags set
C12_Witness ==
  /\ Threw("saveas") /\ ~RootIsLayout(disk["orig"])
  /\ Flags = FlagsOf(TRUE, TRUE, TRUE, TRUE)

\* C13: a successful saveas(fname) with fname not the original layout path
\* leaves every file but fname, the original layout among them, as it was;
\* a call of save() changes the files and the flags as saveas(original path)
\* does.
C13_SaveasFrame ==
  [][/\ (CallOf("saveas") /\ cur'.arg /= "orig" /\ cur'.res = "ok") =>
          \A f \in Files \ {cur'.arg} : disk'[f] = disk[f]
     /\ (CallOf("save") /\ cur'.res = "ok") =>
          /\ disk' = [disk EXCEPT !["orig"] =
                        SavedDoc(disk["orig"], spkpos["spec"], fcomp, caliblevel,
                                 diffusegain, session.calibfor)]
          /\ Flags' = FlagsOf(FALSE, FALSE, FALSE, FALSE)]_vars

\* saveas to the other file has returned after a measurement, the file
\* written differs from the original, which has never been saved
C13_Witness ==
  /\ Returned("saveas") /\ cur.arg = "other"
  /\ hist.pre.flags.levelsrecorded
  /\ disk["other"] /= disk["orig"] /\ ~disk["orig"].saved

\* the places of string s that bound an entry: before the first character,
\* after the last, and every comma
EntryBounds(s) == {0, Len(s) + 1} \cup {i \in 1..Len(s) : s[i] = ","}

\* every comma-separated entry of s holds exactly one colon
OnePairPerEntry(s) ==
  \A a, b \in EntryBounds(s) :
    (a < b /\ ~\E c \in EntryBounds(s) : a < c /\ c < b) =>
      Cardinality({i \in (a + 1)..(b - 1) : s[i] = ":"}) = 1

StagesOfBands(B) == IF B >= 1 THEN (B - 1) \div 3 ELSE -((1 - B) \div 3)

\* min((B - 1) / 3, M)
StageBound(B, M) == Min2(StagesOfBands(B), M)

\* C15: for every band count B >= 0 and every max_eqstages = M, the stage
\* count returned by get_fresp_ (fcomp_bb, fcomp_sub) and the eqstages stored
\* on every speaker and subwoofer of both arrays is at most min((B - 1) / 3, M).
C15_StageCountBound ==
  \A ph \in Sources :
    LET bound == StageBound(par[ph].nbands, par[ph].max_eqstages)
    IN  /\ fcomp[ph] <= bound
        /\ \A r \in Receivers :
             \A k \in DOMAIN spkpos[r][PhaseField(ph)] :
               spkpos[r][PhaseField(ph)][k].eqstages <= bound

\* C16: every step of the calibration engine that changes a gain or equalizer
\* field of a speaker while the session is running is taken with the session
\* lock held by the control context (lock_vars before, unlock_vars after).
C16_MutationUnderLock ==
  [][(session.started /\ spkpos' /= spkpos) =>
       (session.mtx = "ctl" /\ session'.mtx = "ctl")]_vars

\* some step of an audio cycle can be taken
RtStep == RtUpdate \/ RtTryLock \/ RtRead \/ RtEnd

\* C17: the audio callback never waits for the session lock: at trylock_vars
\* it can always go on, whoever holds the lock, and so can every other step of
\* a cycle; and unless a change made under the lock has not yet been followed
\* by a cycle whose trylock succeeded, the callback works with the current
\* value.
C17_CallbackNeverBlocks ==
  /\ session.rt = <<"sync", 0>> => ENABLED RtTryLock
  /\ session.rt /= NoStep => ENABLED RtStep
  /\ ~session.stale => session.cache = session.shared

\* a cycle whose trylock failed is completing with the old value while the
\* control context holds the lock and has changed the value
C17_Witness ==
  /\ session.rt = <<"render", 0>> /\ session.missed
  /\ session.mtx = "ctl" /\ session.cache /= session.shared

\* C18: in every interleaving of start, stop, unload_modules and audio
\* cycles, every update was delivered to a module in the prepared state, and a
\* module about to receive update is prepared.
C18_UpdateOnlyWhilePrepared ==
  /\ \A u \in session.upd : u[2] = "prepared"
  /\ session.rt[1] = "update" => session.mod[session.rt[2]] = "prepared"

\* both modules have received updates, the session has been stopped and the
\* first module is released
C18_Witness ==
  /\ session.upd = {<<1, "prepared">>, <<2, "prepared">>}
  /\ ~session.started /\ session.mod[1] = "released"

\* C19: while stop waits, nothing is released; release and unload of a
\* module run only while no audio cycle is in flight, and whenever the session
\* is not started (before start, after stop has returned) no cycle is in
\* flight.
C19_ReleaseAfterCycle ==
  /\ session.ctl[1] \in {"release", "unload"} => session.rt = NoStep
  /\ ~session.started => session.rt = NoStep

\* stop has been called while a cycle is updating the first module, and waits
C19_Witness ==
  /\ session.ctl = <<"stop", 0>> /\ session.rt = <<"update", 1>>
  /\ session.mod[1] = "prepared"

\* C20: whenever a step of get_levels, set_active or set_active_diff unmutes
\* one of the broadband source, the subwoofer source and the diffuse field,
\* the other two are muted already.
C20_MuteBeforeUnmute ==
  [][\A x \in Stimuli :
       (mute[x] /\ ~mute'[x]) => \A y \in Stimuli \ {x} : mute[y]]_vars

\* C21: when get_levels has returned with a non-zero stage count for a
\* phase, every speaker k of that phase, in both arrays, has its equalizer
\* fitted against, and its eqgain set to, the response measured for speaker k
\* (vGains[k], vGainsSub[k]), its eqfreq set to the band frequencies and its
\* eqstages to the stage count.
C21_RefitOwnResponse ==
  Returned("get_levels") =>
    \A r \in Receivers, ph \in Sources :
      fcomp[ph] /= 0 =>
        \A k \in DOMAIN spkpos[r][PhaseField(ph)] :
          LET spk == spkpos[r][PhaseField(ph)][k]
          IN  /\ spk.eqgain = <<vGains[ph][k]>>
              /\ spk.eq = OptimResponse(fcomp[ph], vF[ph], vGains[ph][k])
              /\ spk.eqfreq = vF[ph]
              /\ spk.eqstages = fcomp[ph]

\* C22: whenever no calibration method is running (after construction and
\* after each return), the nsp and the spec array hold the same gain and the
\* same eqstages at every broadband and subwoofer index, and the nsp and the
\* spec receiver hold the same caliblevel and the same diffusegain; the two
\* arrays are loaded from the same layout.
C22_ArraysInLockStep ==
  (prog = <<>> /\ cur.res = "ok") =>
    /\ \A f \in {"bb", "subs"} :
         \A k \in DOMAIN spkpos["nsp"][f] :
           /\ spkpos["nsp"][f][k].gain = spkpos["spec"][f][k].gain
           /\ spkpos["nsp"][f][k].eqstages = spkpos["spec"][f][k].eqstages
    /\ caliblevel["nsp"] = caliblevel["spec"]
    /\ diffusegain["nsp"] = diffusegain["spec"]

\* C23: the energy averaged over the measurement channels, in the level and
\* in the response measurement, is the sum of the energies of all recorded
\* channels but the last (the reference channel) divided by the number of
\* these measurement channels, for any number of reference microphones >= 1.
C23_MeanOverMeasurementChannels ==
  LET nmeas == Len(recbuf.ms) - 1
      mean == Rat(SumOf(SubSeq(recbuf.ms, 1, nmeas), 1), nmeas)
  IN  /\ recbuf.lev_sqr /= RZero => recbuf.lev_sqr = mean
      /\ recbuf.vLmean /= RZero => recbuf.vLmean = mean

\* the statements of get_fresp_ before its return
FrespBody == {"fresp_begin", "fresp_move", "fresp_rec"}

\* C24: with max_eqstages == 0 get_fresp_ has no statement to run but its
\* return (no capture, no move of the source, no fit), and the return yields
\* 0 stages and leaves the source positions, every speaker (eq, eqfreq,
\* eqgain, eqstages), the stored band frequencies and the stored gain vectors
\* as they are.
C24_NoStagesNoMeasurement ==
  /\ [](\A i \in DOMAIN prog :
          prog[i].i \in FrespBody => par[prog[i].t].max_eqstages /= 0)
  /\ [][(At("fresp_ret") /\ par[Head(prog).t].max_eqstages = 0) =>
          /\ fcomp'[Head(prog).t] = 0
          /\ UNCHANGED <<loc, spkpos, vF, vGains, numflt, recbuf>>]_vars

\* get_fresp_ is about to return for the subwoofers, which have no stages,
\* in a second get_levels, after the broadband speakers have been measured
\* with stages
C24_Witness ==
  /\ At("fresp_ret") /\ Head(prog).t = "sub" /\ par["sub"].max_eqstages = 0
  /\ fcomp["bb"] /= 0 /\ vGains["bb"] /= <<>> /\ hist.calls = 2

\* C25: whenever get_levels has returned normally, whatever the state at
\* the call and with or without subwoofers, both stimulus sources are muted
\* and at (1,0,0), and levelsrecorded is true.
C25_GetLevelsPostState ==
  Returned("get_levels") =>
    /\ mute["bb"] /\ mute["sub"]
    /\ loc["bb"] = "front" /\ loc["sub"] = "front"
    /\ levelsrecorded

\* get_levels has returned on a layout with a subwoofer, called while the
\* broadband source was playing after set_active(true)
C25_Witness ==
  /\ Returned("get_levels") /\ NSub = 1
  /\ calibrated /\ hist.calls = 2

\* a capture of the running method is still to come
CapturePending ==
  \E i \in DOMAIN prog : prog[i].i \in {"fresp_rec", "lev_rec"}

\* C26: when get_levels has been left by the error of a capture, the gain of
\* every speaker of both arrays is the one it had at the call and
\* levelsrecorded has the value it had at the call; no step of get_levels
\* changes a gain or levelsrecorded while a capture is still to come.
C26_FailedCaptureKeepsGains ==
  /\ [](Threw("get_levels") =>
          /\ GainsOf(spkpos) = GainsOf(hist.gain0)
          /\ levelsrecorded = hist.lr0)
  /\ [][CapturePending =>
          /\ GainsOf(spkpos') = GainsOf(spkpos)
          /\ levelsrecorded' = levelsrecorded]_vars

\* a second get_levels has failed in the subwoofer phase, after its broadband
\* captures have succeeded; the first one had recorded levels and set
\* different gains for the two speakers
C26_Witness ==
  /\ Threw("get_levels") /\ ~mute["sub"] /\ hist.lr0
  /\ NSpk = 2 /\ Len(levels) = 2
  /\ spkpos["spec"].bb[1].gain /= spkpos["spec"].bb[2].gain

====
